---- MODULE Spec2Model ----
(***************************************************************************)
(* Model of url.rs: the percent-encoding engine, the IPv6 address codec,   *)
(* the host parser, URL serialization and the form-urlencoded codec.       *)
(*                                                                         *)
(* Strings are sequences of bytes (0..255).  Option<T> is a sequence of    *)
(* length at most one: <<>> is None and <<x>> is Some(x).                  *)
(***************************************************************************)
EXTENDS Integers, Sequences, FiniteSets, TLC

VARIABLES
    pc,                \* position of the call in progress
    arg,               \* arguments of the call in progress
    ret,               \* value returned by the call (when pc = "done")
    \* locals of IPv6Address::parse
    input, len, is_ip_v4, pieces, piece_pointer, compress_pointer,
    i, start, end, value, dots_seen, swaps,
    \* locals of parse_form_urlencoded / serialize_form_urlencoded
    segments, isindex, encoding_override, pairs, output

ipv6Vars == <<input, len, is_ip_v4, pieces, piece_pointer, compress_pointer,
              i, start, end, value, dots_seen, swaps>>
formVars == <<segments, isindex, encoding_override, pairs, output>>
vars == <<pc, arg, ret, ipv6Vars, formVars>>

-----------------------------------------------------------------------------
(* Bytes and string literals *)

\* The printable ASCII characters 0x20..0x7E in code order.
Printable ==
    << " ", "!", "\"", "#", "$", "%", "&", "'", "(", ")", "*", "+", ",", "-",
       ".", "/", "0", "1", "2", "3", "4", "5", "6", "7", "8", "9", ":", ";",
       "<", "=", ">", "?", "@", "A", "B", "C", "D", "E", "F", "G", "H", "I",
       "J", "K", "L", "M", "N", "O", "P", "Q", "R", "S", "T", "U", "V", "W",
       "X", "Y", "Z", "[", "\\", "]", "^", "_", "grave", "a", "b", "c", "d", "e",
       "f", "g", "h", "i", "j", "k", "l", "m", "n", "o", "p", "q", "r", "s",
       "t", "u", "v", "w", "x", "y", "z", "{", "|", "}", "~" >>

\* The byte of a printable ASCII character c ("grave" names 0x60).
Ord(c) == 31 + (CHOOSE k \in 1..Len(Printable) : Printable[k] = c)

\* The byte string spelled by a tuple of one-character strings.
B(s) == [k \in 1..Len(s) |-> Ord(s[k])]

Some(x) == <<x>>
None == <<>>

Min(a, b) == IF a < b THEN a ELSE b

RECURSIVE Concat(_)
\* Concatenation of a sequence of strings.
Concat(ss) == IF ss = <<>> THEN <<>> ELSE Head(ss) \o Concat(Tail(ss))

-----------------------------------------------------------------------------
(* Percent-encoding engine *)

from_hex(byte) ==
    IF byte >= 48 /\ byte <= 57 THEN Some(byte - 48)
    ELSE IF byte >= 65 /\ byte <= 70 THEN Some(byte + 10 - 65)
    ELSE IF byte >= 97 /\ byte <= 102 THEN Some(byte + 10 - 97)
    ELSE None

\* Only called with value in 0..15 (the fail!() arm is unreachable).
to_hex_upper(v) == IF v <= 9 THEN v + 48 ELSE v - 10 + 65

percent_encode_byte(byte) ==
    << Ord("%"), to_hex_upper(byte \div 16), to_hex_upper(byte % 16) >>

EncodeSet == << "SimpleEncodeSet", "DefaultEncodeSet", "UserInfoEncodeSet",
                "PasswordEncodeSet", "UsernameEncodeSet" >>

\* Mutation of the '@' arm: the Password set is left out of the match.
is_escaped_at_dropped(byte, encode_set) ==
    \/ byte < 32
    \/ byte > 126
    \/ /\ byte \in { Ord(" "), Ord("\""), Ord("#"), Ord("<"), Ord(">"),
                     Ord("?"), Ord("grave") }
       /\ encode_set \in { "DefaultEncodeSet", "UserInfoEncodeSet",
                           "PasswordEncodeSet", "UsernameEncodeSet" }
    \/ /\ byte = Ord("@")
       /\ encode_set \in { "UserInfoEncodeSet", "UsernameEncodeSet" }
    \/ /\ byte \in { Ord("/"), Ord("\\") }
       /\ encode_set \in { "PasswordEncodeSet", "UsernameEncodeSet" }
    \/ /\ byte = Ord(":")
       /\ encode_set = "UsernameEncodeSet"

\* The condition of utf8_percent_encode under which a byte is escaped.
is_escaped(byte, encode_set) ==
    \/ byte < 32
    \/ byte > 126
    \/ /\ byte \in { Ord(" "), Ord("\""), Ord("#"), Ord("<"), Ord(">"),
                     Ord("?"), Ord("grave") }
       /\ encode_set \in { "DefaultEncodeSet", "UserInfoEncodeSet",
                           "PasswordEncodeSet", "UsernameEncodeSet" }
    \/ /\ byte = Ord("@")
       /\ encode_set \in { "UserInfoEncodeSet", "PasswordEncodeSet",
                           "UsernameEncodeSet" }
    \/ /\ byte \in { Ord("/"), Ord("\\") }
       /\ encode_set \in { "PasswordEncodeSet", "UsernameEncodeSet" }
    \/ /\ byte = Ord(":")
       /\ encode_set = "UsernameEncodeSet"

\* The bytes appended to the output for an input string.
utf8_percent_encode(in, encode_set) ==
    Concat([k \in 1..Len(in) |->
              IF is_escaped(in[k], encode_set)
              THEN percent_encode_byte(in[k])
              ELSE << in[k] >>])

RECURSIVE percent_decode_from(_, _)
\* The loop of percent_decode from (1-based) position k.
percent_decode_from(in, k) ==
    IF k > Len(in) THEN <<>>
    ELSE IF /\ in[k] = Ord("%")
            /\ k + 2 <= Len(in)
            /\ from_hex(in[k + 1]) # None
            /\ from_hex(in[k + 2]) # None
         THEN << from_hex(in[k + 1])[1] * 16 + from_hex(in[k + 2])[1] >>
              \o percent_decode_from(in, k + 3)
         ELSE << in[k] >> \o percent_decode_from(in, k + 1)

percent_decode(in) == percent_decode_from(in, 1)

-----------------------------------------------------------------------------
(* IPv6 address codec: serialization *)

RECURSIVE longest_zero_sequence_from(_, _, _, _, _)
\* The for loop of longest_zero_sequence at index k (0-based), followed by
\* the closing finish_sequence!(8).  finish_sequence!(e) replaces the
\* longest run when start >= 0 and e - start > longest_length.
longest_zero_sequence_from(p, k, longest, longest_length, st) ==
    LET finish(e) == IF st >= 0 /\ e - st > longest_length
                     THEN << st, e - st >>
                     ELSE << longest, longest_length >>
    IN  IF k = 8
        THEN << finish(8)[1], finish(8)[1] + finish(8)[2] >>
        ELSE IF p[k + 1] = 0
             THEN longest_zero_sequence_from(p, k + 1, longest, longest_length,
                                             IF st < 0 THEN k ELSE st)
             ELSE longest_zero_sequence_from(p, k + 1, finish(k)[1],
                                             finish(k)[2], -1)

\* (compress_start, compress_end) of the leftmost longest run of zero groups;
\* (-1, -2) when no group is zero.
longest_zero_sequence(p) == longest_zero_sequence_from(p, 0, -1, -1, -1)

\* One lowercase hexadecimal digit.
hex_digit_lower(d) == IF d <= 9 THEN d + 48 ELSE d - 10 + 97

RECURSIVE to_str_radix_16(_)
\* u16::to_str_radix(16): lowercase, no leading zeros, "0" for zero.
to_str_radix_16(n) ==
    IF n < 16 THEN << hex_digit_lower(n) >>
    ELSE to_str_radix_16(n \div 16) \o << hex_digit_lower(n % 16) >>

RECURSIVE serialize_from(_, _, _, _)
\* The while loop of IPv6Address::serialize at index k (0-based).
serialize_from(p, compress_start, compress_end, k) ==
    LET piece(j) == to_str_radix_16(p[j + 1])
                    \o (IF j < 7 THEN << Ord(":") >> ELSE <<>>)
                    \o serialize_from(p, compress_start, compress_end, j + 1)
    IN  IF k >= 8 THEN <<>>
        ELSE IF k = compress_start
             THEN << Ord(":") >>
                  \o (IF k = 0 THEN << Ord(":") >> ELSE <<>>)
                  \o (IF compress_end < 8 THEN piece(compress_end) ELSE <<>>)
             ELSE piece(k)

IPv6Address_serialize(p) ==
    serialize_from(p, longest_zero_sequence(p)[1], longest_zero_sequence(p)[2], 0)

-----------------------------------------------------------------------------
(* IPv6 address codec: IPv6Address::parse, one action per loop iteration *)

\* input[k] for a 0-based index k.
At(k) == input[k + 1]

\* `return v` from IPv6Address::parse: back to the match in Host::parse, or
\* to the caller.
ParseReturn(v) ==
    /\ ret' = v
    /\ pc' = IF arg.fn = "Host::parse" THEN "host_match" ELSE "done"

\* Lines 206-219: the locals and the leading "::".  input[0] and input[1] are
\* bounds-checked indexing: out of range fails the task.
ParseBegin ==
    /\ pc = "parse"
    /\ len' = Len(input)
    /\ is_ip_v4' = FALSE
    /\ pieces' = << 0, 0, 0, 0, 0, 0, 0, 0 >>
    /\ IF Len(input) = 0
       THEN /\ pc' = "abort"
            /\ UNCHANGED << ret, piece_pointer, compress_pointer, i >>
       ELSE IF At(0) = Ord(":")
            THEN IF Len(input) = 1
                 THEN /\ pc' = "abort"
                      /\ UNCHANGED << ret, piece_pointer, compress_pointer, i >>
                 ELSE IF At(1) # Ord(":")
                      THEN /\ ParseReturn(None)
                           /\ piece_pointer' = 0
                           /\ compress_pointer' = None
                           /\ i' = 0
                      ELSE /\ i' = 2
                           /\ piece_pointer' = 1
                           /\ compress_pointer' = Some(1)
                           /\ pc' = "main_loop"
                           /\ ret' = ret
            ELSE /\ i' = 0
                 /\ piece_pointer' = 0
                 /\ compress_pointer' = None
                 /\ pc' = "main_loop"
                 /\ ret' = ret
    /\ UNCHANGED << arg, input, start, end, value, dots_seen, swaps, formVars >>

\* Lines 221-236: the head of the main loop up to the start of the hex run.
MainLoop ==
    /\ pc = "main_loop"
    /\ IF ~(i < len)
       THEN /\ pc' = "ipv4_check"
            /\ UNCHANGED << ret, i, piece_pointer, compress_pointer,
                            start, end, value >>
       ELSE IF piece_pointer = 8
            THEN /\ ParseReturn(None)
                 /\ UNCHANGED << i, piece_pointer, compress_pointer,
                                 start, end, value >>
            ELSE IF At(i) = Ord(":")
                 THEN IF compress_pointer # None
                      THEN /\ ParseReturn(None)
                           /\ UNCHANGED << i, piece_pointer, compress_pointer,
                                           start, end, value >>
                      ELSE /\ i' = i + 1
                           /\ piece_pointer' = piece_pointer + 1
                           /\ compress_pointer' = Some(piece_pointer + 1)
                           /\ UNCHANGED << pc, ret, start, end, value >>
                 ELSE /\ start' = i
                      /\ end' = Min(len, i + 4)
                      /\ value' = 0
                      /\ pc' = "hex_loop"
                      /\ UNCHANGED << ret, i, piece_pointer, compress_pointer >>
    /\ UNCHANGED << arg, input, len, is_ip_v4, pieces, dots_seen, swaps,
                    formVars >>

\* Lines 237-245: one iteration of the hex digit loop.
HexLoop ==
    /\ pc = "hex_loop"
    /\ IF i < end /\ from_hex(At(i)) # None
       THEN /\ value' = (value * 16 + from_hex(At(i))[1]) % 65536
            /\ i' = i + 1
            /\ pc' = pc
       ELSE /\ pc' = "after_hex"
            /\ UNCHANGED << value, i >>
    /\ UNCHANGED << arg, ret, input, len, is_ip_v4, pieces, piece_pointer,
                    compress_pointer, start, end, dots_seen, swaps, formVars >>

\* Lines 246-268: the character after the hex run, then storing the group.
AfterHex ==
    /\ pc = "after_hex"
    /\ IF i < len /\ At(i) = Ord(".")
       THEN IF i = start
            THEN /\ ParseReturn(None)
                 /\ UNCHANGED << i, is_ip_v4, pieces, piece_pointer >>
            ELSE /\ i' = start
                 /\ is_ip_v4' = TRUE
                 /\ pc' = "ipv4_check"
                 /\ UNCHANGED << ret, pieces, piece_pointer >>
       ELSE IF i < len /\ At(i) # Ord(":")
            THEN /\ ParseReturn(None)
                 /\ UNCHANGED << i, is_ip_v4, pieces, piece_pointer >>
            ELSE IF i < len /\ i + 1 = len
                 THEN /\ i' = i + 1
                      /\ ParseReturn(None)
                      /\ UNCHANGED << is_ip_v4, pieces, piece_pointer >>
                 ELSE /\ i' = IF i < len THEN i + 1 ELSE i
                      /\ pieces' = [pieces EXCEPT ![piece_pointer + 1] = value]
                      /\ piece_pointer' = piece_pointer + 1
                      /\ pc' = "main_loop"
                      /\ UNCHANGED << ret, is_ip_v4 >>
    /\ UNCHANGED << arg, input, len, compress_pointer, start, end, value,
                    dots_seen, swaps, formVars >>

\* Lines 271-275: entry of the embedded IPv4 part.
IPv4Check ==
    /\ pc = "ipv4_check"
    /\ IF is_ip_v4
       THEN IF piece_pointer > 6
            THEN ParseReturn(None) /\ UNCHANGED dots_seen
            ELSE dots_seen' = 0 /\ pc' = "ipv4_outer" /\ ret' = ret
       ELSE pc' = "finalize" /\ UNCHANGED << ret, dots_seen >>
    /\ UNCHANGED << arg, input, len, is_ip_v4, pieces, piece_pointer,
                    compress_pointer, i, start, end, value, swaps, formVars >>

\* Lines 276-277: the head of the octet loop.
IPv4Outer ==
    /\ pc = "ipv4_outer"
    /\ IF i < len
       THEN value' = 0 /\ pc' = "ipv4_inner"
       ELSE pc' = "finalize" /\ UNCHANGED value
    /\ UNCHANGED << arg, ret, input, len, is_ip_v4, pieces, piece_pointer,
                    compress_pointer, i, start, end, dots_seen, swaps,
                    formVars >>

\* Lines 278-282: the test of the decimal digit loop and the match on
\* input[i].
IPv4Inner ==
    /\ pc = "ipv4_inner"
    /\ pc' = IF i < len /\ At(i) >= 48 /\ At(i) <= 57
             THEN "ipv4_digit"
             ELSE "ipv4_after"
    /\ UNCHANGED << arg, ret, input, len, is_ip_v4, pieces, piece_pointer,
                    compress_pointer, i, start, end, value, dots_seen, swaps,
                    formVars >>

\* Lines 283-286: the digit is added to value and the range is checked.  The
\* loop body does not assign i: the next iteration reads the same byte.
IPv4Digit ==
    /\ pc = "ipv4_digit"
    /\ value' = (value * 10 + (At(i) - 48)) % 65536
    /\ IF value' > 255
       THEN ParseReturn(None)
       ELSE pc' = "ipv4_inner" /\ ret' = ret
    /\ UNCHANGED << arg, input, len, is_ip_v4, pieces, piece_pointer,
                    compress_pointer, i, start, end, dots_seen, swaps,
                    formVars >>

\* Lines 288-300: the end of one octet.
IPv4After ==
    /\ pc = "ipv4_after"
    /\ IF dots_seen < 3 /\ ~(i < len /\ At(i) = Ord("."))
       THEN /\ ParseReturn(None)
            /\ UNCHANGED << pieces, piece_pointer, i, dots_seen >>
       ELSE /\ pieces' = [pieces EXCEPT ![piece_pointer + 1] =
                              (pieces[piece_pointer + 1] * 256 + value) % 65536]
            /\ piece_pointer' = IF dots_seen = 0 \/ dots_seen = 2
                                THEN piece_pointer + 1
                                ELSE piece_pointer
            /\ i' = i + 1
            /\ IF dots_seen = 3 /\ i + 1 < len
               THEN ParseReturn(None) /\ UNCHANGED dots_seen
               ELSE /\ dots_seen' = dots_seen + 1
                    /\ pc' = "ipv4_outer"
                    /\ ret' = ret
    /\ UNCHANGED << arg, input, len, is_ip_v4, compress_pointer, start, end,
                    value, swaps, formVars >>

\* Lines 303-306 and 314-318: the match on compress_pointer.
Finalize ==
    /\ pc = "finalize"
    /\ IF compress_pointer # None
       THEN /\ swaps' = piece_pointer - compress_pointer[1]
            /\ piece_pointer' = 7
            /\ pc' = "swap_loop"
            /\ ret' = ret
       ELSE /\ IF piece_pointer # 8
               THEN ParseReturn(None)
               ELSE ParseReturn(Some(pieces))
            /\ UNCHANGED << swaps, piece_pointer >>
    /\ UNCHANGED << arg, input, len, is_ip_v4, pieces, compress_pointer, i,
                    start, end, value, dots_seen, formVars >>

\* Lines 308-309: pieces[to] = pieces[from]; pieces[from] = 0, in that order.
swap_step(p, to, from) ==
    [[p EXCEPT ![to + 1] = p[from + 1]] EXCEPT ![from + 1] = 0]

\* Lines 307-312 and 318: one iteration of the shifting loop, or the return.
SwapLoop ==
    /\ pc = "swap_loop"
    /\ IF swaps > 0
       THEN /\ pieces' = swap_step(pieces, piece_pointer,
                                   compress_pointer[1] + swaps - 1)
            /\ swaps' = swaps - 1
            /\ piece_pointer' = piece_pointer - 1
            /\ pc' = pc
            /\ ret' = ret
       ELSE /\ ParseReturn(Some(pieces))
            /\ UNCHANGED << pieces, swaps, piece_pointer >>
    /\ UNCHANGED << arg, input, len, is_ip_v4, compress_pointer, i, start,
                    end, value, dots_seen, formVars >>

-----------------------------------------------------------------------------
(* Character encoding provider (the `encoding` crate), UTF-8 only *)

IsCont(b) == b >= 128 /\ b <= 191

RECURSIVE utf8_decode_from(_, _)
\* UTF_8.decode(bytes, DecodeReplace): the code points of the byte string,
\* with U+FFFD for every byte that does not start a well-formed sequence.
utf8_decode_from(b, k) ==
    LET n == Len(b)
        c(j) == b[k + j] - 128
    IN  IF k > n THEN <<>>
        ELSE IF b[k] < 128
        THEN << b[k] >> \o utf8_decode_from(b, k + 1)
        ELSE IF b[k] >= 194 /\ b[k] <= 223 /\ k + 1 <= n /\ IsCont(b[k + 1])
        THEN << (b[k] - 192) * 64 + c(1) >> \o utf8_decode_from(b, k + 2)
        ELSE IF /\ b[k] >= 224 /\ b[k] <= 239 /\ k + 2 <= n
                /\ IsCont(b[k + 1]) /\ IsCont(b[k + 2])
                /\ (b[k] = 224 => b[k + 1] >= 160)
                /\ (b[k] = 237 => b[k + 1] <= 159)
        THEN << (b[k] - 224) * 4096 + c(1) * 64 + c(2) >>
             \o utf8_decode_from(b, k + 3)
        ELSE IF /\ b[k] >= 240 /\ b[k] <= 244 /\ k + 3 <= n
                /\ IsCont(b[k + 1]) /\ IsCont(b[k + 2]) /\ IsCont(b[k + 3])
                /\ (b[k] = 240 => b[k + 1] >= 144)
                /\ (b[k] = 244 => b[k + 1] <= 143)
        THEN << (b[k] - 240) * 262144 + c(1) * 4096 + c(2) * 64 + c(3) >>
             \o utf8_decode_from(b, k + 4)
        ELSE << 65533 >> \o utf8_decode_from(b, k + 1)

utf8_decode(b) == utf8_decode_from(b, 1)

\* str::as_bytes: the UTF-8 bytes of a string of code points.
utf8_encode(str) ==
    Concat([k \in 1..Len(str) |->
        LET cp == str[k]
        IN  IF cp < 128 THEN << cp >>
            ELSE IF cp < 2048 THEN << 192 + (cp \div 64), 128 + (cp % 64) >>
            ELSE IF cp < 65536
                 THEN << 224 + (cp \div 4096), 128 + ((cp \div 64) % 64),
                         128 + (cp % 64) >>
                 ELSE << 240 + (cp \div 262144), 128 + ((cp \div 4096) % 64),
                         128 + ((cp \div 64) % 64), 128 + (cp % 64) >>])

-----------------------------------------------------------------------------
(* Host resolver *)

RECURSIVE split_from(_, _, _, _)
\* str::split: the pieces of str between separators (a string without any
\* separator, the empty string included, is one piece).
split_from(str, seps, k, cur) ==
    IF k > Len(str) THEN << cur >>
    ELSE IF str[k] \in seps
         THEN << cur >> \o split_from(str, seps, k + 1, <<>>)
         ELSE split_from(str, seps, k + 1, Append(cur, str[k]))

split(str, seps) == split_from(str, seps, 1, <<>>)

\* The four domain dots: '.', U+3002, U+FF0E, U+FF61.
DomainDots == { Ord("."), 12290, 65294, 65377 }

is_ascii(str) == \A k \in 1..Len(str) : str[k] < 128

\* Lines 172-186: the domain branch of Host::parse.
parse_domain(in) ==
    LET decoded == utf8_decode(percent_decode(
                       utf8_percent_encode(in, "SimpleEncodeSet")))
        labels == split(decoded, DomainDots)
    IN  IF \A k \in 1..Len(labels) : is_ascii(labels[k])
        THEN << "Ok", << "Domain", labels >> >>
        ELSE << "Err", "Non-ASCII domains (IDNA) are not supported yet." >>

RECURSIVE connect(_, _)
\* labels.connect(sep)
connect(labels, sep) ==
    IF labels = <<>> THEN <<>>
    ELSE IF Len(labels) = 1 THEN labels[1]
    ELSE labels[1] \o sep \o connect(Tail(labels), sep)

\* Lines 190-200.
Host_serialize(host) ==
    IF host[1] = "Domain"
    THEN connect(host[2], << Ord(".") >>)
    ELSE << Ord("[") >> \o IPv6Address_serialize(host[2]) \o << Ord("]") >>

\* Lines 159-163 and 168-187: Host::parse up to the call of
\* IPv6Address::parse on the interior of the brackets.
HostParse ==
    /\ pc = "call"
    /\ arg.fn = "Host::parse"
    /\ LET in == arg.input
       IN  IF Len(in) = 0
           THEN /\ ret' = << "Err", "Empty host" >>
                /\ pc' = "done"
                /\ UNCHANGED input
           ELSE IF in[1] = Ord("[")
                THEN IF in[Len(in)] = Ord("]")
                     THEN /\ input' = SubSeq(in, 2, Len(in) - 1)
                          /\ pc' = "parse"
                          /\ ret' = ret
                     ELSE /\ ret' = << "Err", "Invalid IPv6 address" >>
                          /\ pc' = "done"
                          /\ UNCHANGED input
                ELSE /\ ret' = parse_domain(in)
                     /\ pc' = "done"
                     /\ UNCHANGED input
    /\ UNCHANGED << arg, len, is_ip_v4, pieces, piece_pointer,
                    compress_pointer, i, start, end, value, dots_seen, swaps,
                    formVars >>

\* Lines 164-167: the match on the result of IPv6Address::parse.
HostMatch ==
    /\ pc = "host_match"
    /\ ret' = IF ret # None
              THEN << "Ok", << "IPv6", ret[1] >> >>
              ELSE << "Err", "Invalid IPv6 address" >>
    /\ pc' = "done"
    /\ UNCHANGED << arg, ipv6Vars, formVars >>

\* A direct call IPv6Address::parse(input).
CallParse ==
    /\ pc = "call"
    /\ arg.fn = "IPv6Address::parse"
    /\ input' = arg.input
    /\ pc' = "parse"
    /\ UNCHANGED << arg, ret, len, is_ip_v4, pieces, piece_pointer,
                    compress_pointer, i, start, end, value, dots_seen, swaps,
                    formVars >>

\* The call IPv6Address::parse(address.serialize()).
CallSerializeParse ==
    /\ pc = "call"
    /\ arg.fn = "IPv6Address::serialize"
    /\ input' = IPv6Address_serialize(arg.address)
    /\ pc' = "parse"
    /\ UNCHANGED << arg, ret, len, is_ip_v4, pieces, piece_pointer,
                    compress_pointer, i, start, end, value, dots_seen, swaps,
                    formVars >>

-----------------------------------------------------------------------------
(* Form-urlencoded codec *)
(* A str is modelled by its UTF-8 bytes where the code scans it and by its  *)
(* code points where a decoder produced it; the two agree on ASCII.         *)

\* str::replace("+", " ")
replace_plus(str) ==
    [k \in 1..Len(str) |-> IF str[k] = Ord("+") THEN Ord(" ") ELSE str[k]]

\* str::find('='): the 1-based position of the first '=', 0 when absent.
find_eq(str) ==
    IF \E k \in 1..Len(str) : str[k] = Ord("=")
    THEN CHOOSE k \in 1..Len(str) :
            str[k] = Ord("=") /\ \A j \in 1..(k - 1) : str[j] # Ord("=")
    ELSE 0

\* Mutation of line 478: the isindex flag is ignored.
segment_pair_ignoring_isindex(string, isidx) ==
    IF find_eq(string) # 0
    THEN << SubSeq(string, 1, find_eq(string) - 1),
            SubSeq(string, find_eq(string) + 1, Len(string)) >>
    ELSE << string, <<>> >>

\* Lines 476-479: the raw (name, value) of a non-empty segment.
segment_pair(string, isidx) ==
    IF find_eq(string) # 0
    THEN << SubSeq(string, 1, find_eq(string) - 1),
            SubSeq(string, find_eq(string) + 1, Len(string)) >>
    ELSE IF isidx THEN << <<>>, string >> ELSE << string, <<>> >>

CharsetName == B(<< "_", "c", "h", "a", "r", "s", "e", "t", "_" >>)

\* encoding_from_whatwg_label, for the labels used here: the encoding of a
\* label, or None.
encoding_from_whatwg_label(label) ==
    IF label \in { B(<< "u", "t", "f", "-", "8" >>), B(<< "u", "t", "f", "8" >>) }
    THEN Some("utf-8")
    ELSE IF label \in { B(<< "l", "1" >>) }
    THEN Some("windows-1252")
    ELSE None

\* encoding.decode(bytes, DecodeReplace).  The single-byte encoding maps a
\* byte to the code point of the same number (exact outside 0x80..0x9F).
encoding_decode(encoding, bytes) ==
    IF encoding = "utf-8" THEN utf8_decode(bytes) ELSE bytes

\* Lines 494-497: the inner fn decode.
form_decode(str, encoding) == encoding_decode(encoding, percent_decode(str))

\* Lines 472-473: the locals of parse_form_urlencoded and the split of the
\* input.  The input is the argument, or the string serialized before.
FormParseBegin ==
    /\ pc = "form_parse"
    /\ encoding_override' = "utf-8"
    /\ pairs' = <<>>
    /\ isindex' = arg.isindex
    /\ segments' = split(IF arg.fn = "parse_form_urlencoded"
                         THEN arg.input ELSE output,
                         { Ord("&") })
    /\ pc' = "form_loop"
    /\ UNCHANGED << arg, ret, output, ipv6Vars >>

\* Lines 474-491: one iteration of the loop over the segments.
FormParseSegment ==
    /\ pc = "form_loop"
    /\ segments # <<>>
    /\ LET string == Head(segments)
           name == replace_plus(segment_pair(string, isindex)[1])
           val == replace_plus(segment_pair(string, isindex)[2])
       IN  IF Len(string) > 0
           THEN /\ pairs' = Append(pairs, << name, val >>)
                /\ encoding_override' =
                     IF /\ arg.use_charset
                        /\ name = CharsetName
                        /\ encoding_from_whatwg_label(val) # None
                     THEN encoding_from_whatwg_label(val)[1]
                     ELSE encoding_override
           ELSE UNCHANGED << pairs, encoding_override >>
    /\ isindex' = FALSE
    /\ segments' = Tail(segments)
    /\ UNCHANGED << pc, arg, ret, output, ipv6Vars >>

\* Lines 499-506: the decoding pass over the collected pairs and the return.
FormParseDecode ==
    /\ pc = "form_loop"
    /\ segments = <<>>
    /\ ret' = [k \in 1..Len(pairs) |->
                 << form_decode(pairs[k][1], encoding_override),
                    form_decode(pairs[k][2], encoding_override) >>]
    /\ pc' = "done"
    /\ UNCHANGED << arg, ipv6Vars, formVars >>

\* Lines 514-533 with encoding_override = None: the bytes appended for a
\* name or a value.
byte_serialize(str) ==
    Concat([k \in 1..Len(utf8_encode(str)) |->
        LET byte == utf8_encode(str)[k]
        IN  IF byte = 32 THEN << Ord("+") >>
            ELSE IF \/ byte \in { 42, 45, 46, 95 }
                    \/ (byte >= 48 /\ byte <= 57)
                    \/ (byte >= 65 /\ byte <= 90)
                    \/ (byte >= 97 /\ byte <= 122)
                 THEN << byte >>
                 ELSE percent_encode_byte(byte)])

\* Line 535: the empty output, and the iterator over the pairs.
FormSerializeBegin ==
    /\ pc = "form_serialize"
    /\ output' = <<>>
    /\ pairs' = arg.pairs
    /\ pc' = "serialize_loop"
    /\ UNCHANGED << arg, ret, segments, isindex, encoding_override, ipv6Vars >>

\* Lines 536-543: one iteration of the loop over the pairs.  The whole body
\* of the loop is inside `if output.len() > 0`.
FormSerializePair ==
    /\ pc = "serialize_loop"
    /\ pairs # <<>>
    /\ output' = IF Len(output) > 0
                 THEN output \o << Ord("&") >> \o byte_serialize(Head(pairs)[1])
                      \o << Ord("=") >> \o byte_serialize(Head(pairs)[2])
                 ELSE output
    /\ pairs' = Tail(pairs)
    /\ UNCHANGED << pc, arg, ret, segments, isindex, encoding_override,
                    ipv6Vars >>

\* Line 544: the return of serialize_form_urlencoded, to the caller or into
\* parse_form_urlencoded.
FormSerializeReturn ==
    /\ pc = "serialize_loop"
    /\ pairs = <<>>
    /\ IF arg.fn = "serialize_form_urlencoded"
       THEN ret' = output /\ pc' = "done"
       ELSE ret' = ret /\ pc' = "form_parse"
    /\ UNCHANGED << arg, ipv6Vars, formVars >>

-----------------------------------------------------------------------------
(* URL data model: serialization *)
(* A URL is [scheme, scheme_data, query, fragment]; scheme_data is           *)
(* <<"RelativeSchemeData", [userinfo, host, port, path]>> or                *)
(* <<"OtherSchemeData", data>>; userinfo is an Option of                    *)
(* [username, password], password an Option.                                *)

\* Mutation of line 118: the test is only username.len() > 0.
serialize_userinfo_username_only(userinfo) ==
    IF userinfo = None THEN <<>>
    ELSE IF Len(userinfo[1].username) > 0
         THEN userinfo[1].username
              \o (IF userinfo[1].password = None THEN <<>>
                  ELSE << Ord(":") >> \o userinfo[1].password[1])
              \o << Ord("@") >>
         ELSE <<>>

\* Lines 115-129: what the match on userinfo appends.
serialize_userinfo(userinfo) ==
    IF userinfo = None THEN <<>>
    ELSE IF Len(userinfo[1].username) > 0 \/ userinfo[1].password # None
         THEN userinfo[1].username
              \o (IF userinfo[1].password = None THEN <<>>
                  ELSE << Ord(":") >> \o userinfo[1].password[1])
              \o << Ord("@") >>
         ELSE <<>>

\* Lines 107-154.
serialize_no_fragment(url) ==
    url.scheme \o << Ord(":") >>
    \o (IF url.scheme_data[1] = "RelativeSchemeData"
        THEN LET rel == url.scheme_data[2]
             IN  << Ord("/"), Ord("/") >>
                 \o serialize_userinfo(rel.userinfo)
                 \o Host_serialize(rel.host)
                 \o (IF Len(rel.port) > 0
                     THEN << Ord(":") >> \o rel.port ELSE <<>>)
                 \o (IF Len(rel.path) > 0
                     THEN Concat([k \in 1..Len(rel.path) |->
                                     << Ord("/") >> \o rel.path[k]])
                     ELSE << Ord("/") >>)
        ELSE url.scheme_data[2])
    \o (IF url.query = None THEN <<>> ELSE << Ord("?") >> \o url.query[1])

\* Lines 95-105.
URL_serialize(url) ==
    serialize_no_fragment(url)
    \o (IF url.fragment = None THEN <<>> ELSE << Ord("#") >> \o url.fragment[1])

\* A call of URL::serialize_no_fragment.
SerializeNoFragment ==
    /\ pc = "call"
    /\ arg.fn = "URL::serialize_no_fragment"
    /\ ret' = serialize_no_fragment(arg.url)
    /\ pc' = "done"
    /\ UNCHANGED << arg, ipv6Vars, formVars >>

\* A call of URL::serialize.
Serialize ==
    /\ pc = "call"
    /\ arg.fn = "URL::serialize"
    /\ ret' = URL_serialize(arg.url)
    /\ pc' = "done"
    /\ UNCHANGED << arg, ipv6Vars, formVars >>

-----------------------------------------------------------------------------
(* Calls of the percent-encoding engine *)

\* A call of utf8_percent_encode with an empty output buffer.
Encode ==
    /\ pc = "call"
    /\ arg.fn = "utf8_percent_encode"
    /\ output' = utf8_percent_encode(arg.input, arg.encode_set)
    /\ pc' = "encoded"
    /\ UNCHANGED << arg, ret, segments, isindex, encoding_override, pairs,
                    ipv6Vars >>

\* A call of percent_decode on the encoded bytes.
Decode ==
    /\ pc = "encoded"
    /\ ret' = percent_decode(output)
    /\ pc' = "done"
    /\ UNCHANGED << arg, ipv6Vars, formVars >>

-----------------------------------------------------------------------------
(* The IPv6 codec and host resolver as a system: the calls that are checked *)

\* Longest generated input of IPv6Address::parse.
MaxLen == 4
\* Longest generated interior of a bracketed host.
MaxHostLen == 2
\* Largest group value of the generated addresses.
MaxGroup == 1

\* All byte strings over an alphabet up to a length.
Strings(alphabet, n) == UNION { [1..k -> alphabet] : k \in 0..n }

IPv6Alphabet == { Ord(":"), Ord("."), Ord("0"), Ord("1"), Ord("f"), Ord("g") }

V4Mapped == B(<< ":", ":", "f", "f", "f", "f", ":",
                 "1", "9", "2", ".", "0", ".", "2", ".", "1" >>)

\* "::a.b.c.d" for one-digit octets.
V4Compat(a, b, c, d) ==
    << Ord(":"), Ord(":"), 48 + a, Ord("."), 48 + b, Ord("."), 48 + c,
       Ord("."), 48 + d >>

V4Octets == { 0, 1, 2 }

ParseInputs ==
    Strings(IPv6Alphabet, MaxLen)
    \cup { V4Compat(a, b, c, d) : a, b, c, d \in V4Octets }
    \cup { V4Mapped,
           B(<< "2", "0", "0", "1", ":", "d", "b", "8", ":", ":", "1" >>),
           B(<< "2", "0", "0", "1", ":", "D", "B", "8", ":", ":", "1" >>),
           B(<< "1", ":", "2", ":", "3", ":", "4", ":", "5", ":", "6", ":",
                "7", ":", "8" >>),
           B(<< "1", ":", "2", ":", "3", ":", "4", ":", "5", ":", "6", ":",
                "7", ":", "8", ":", "9" >>),
           B(<< ":", ":", "1", ":", "2", ":", "3", ":", "4", ":", "5", ":",
                "6", ":", "7" >>),
           B(<< "1", ":", ":", "3", ":", "4", ":", "5", ":", "6", ":", "7",
                ":", "8" >>),
           B(<< "1", ":", "2", ":", "3", ":", "4", ":", "5", ":", "6", ":",
                "7", ":", ":" >>),
           B(<< "1", ":", "2", ":", ":", "6", ":", "7", ":", "8" >>),
           B(<< "1", ":", "2", ":", "3", ":", "4", ":", "5", ":", "6", ":",
                "7", ":", "1", ".", "2", ".", "3", ".", "4" >>),
           B(<< "1", "2", "3", "4", "5" >>) }

HostInputs ==
    { << Ord("[") >> \o str \o << Ord("]") >> :
          str \in Strings(IPv6Alphabet, MaxHostLen) }
    \cup { << Ord("[") >> \o str : str \in Strings(IPv6Alphabet, MaxHostLen) }
    \cup { <<>>,
           B(<< "[", ":", ":", "1", "]" >>),
           B(<< "[", ":", ":", "1" >>),
           B(<< "[", ":", ":", "g", "]" >>),
           B(<< "[", ":", ":", "f", ":", "1", "]" >>),
           B(<< "E", "X", "A", "M", "P", "L", "E", ".", "c", "o", "m" >>),
           B(<< "a", "%", "2", "E", "b" >>),
           B(<< "a", "]" >>),
           << Ord("a"), 227, 128, 130, Ord("b") >>,
           << Ord("a"), 195, 169 >> }

Addresses ==
    [1..8 -> 0..MaxGroup]
    \cup { << 8193, 3512, 0, 0, 0, 0, 0, 1 >>,
           << 0, 0, 0, 0, 0, 65535, 49152, 513 >>,
           << 0, 1, 2, 3, 4, 5, 6, 7 >>,
           << 1, 0, 2, 3, 4, 5, 6, 7 >>,
           << 1, 2, 3, 4, 5, 6, 7, 0 >>,
           << 1, 2, 3, 4, 5, 6, 7, 8 >>,
           << 4096, 0, 0, 256, 16, 0, 0, 43981 >> }

IPv6Calls ==
    [fn : {"IPv6Address::parse"}, input : ParseInputs, address : {<<>>}]
    \cup [fn : {"Host::parse"}, input : HostInputs, address : {<<>>}]
    \cup [fn : {"IPv6Address::serialize"}, input : {<<>>}, address : Addresses]

\* The locals of IPv6Address::parse before any call.
InitIPv6Locals ==
    /\ input = <<>>
    /\ len = 0
    /\ is_ip_v4 = FALSE
    /\ pieces = << 0, 0, 0, 0, 0, 0, 0, 0 >>
    /\ piece_pointer = 0
    /\ compress_pointer = None
    /\ i = 0
    /\ start = 0
    /\ end = 0
    /\ value = 0
    /\ dots_seen = 0
    /\ swaps = 0

\* The locals of the form codec before any call.
InitFormLocals ==
    /\ segments = <<>>
    /\ isindex = FALSE
    /\ encoding_override = "utf-8"
    /\ pairs = <<>>
    /\ output = <<>>

InitIPv6 ==
    /\ pc = "call"
    /\ arg \in IPv6Calls
    /\ ret = None
    /\ InitIPv6Locals
    /\ InitFormLocals

\* The steps of IPv6Address::parse.
ParserStep ==
    \/ ParseBegin
    \/ MainLoop
    \/ HexLoop
    \/ AfterHex
    \/ IPv4Check
    \/ IPv4Outer
    \/ IPv4Inner
    \/ IPv4Digit
    \/ IPv4After
    \/ Finalize
    \/ SwapLoop

NextIPv6 ==
    \/ CallParse
    \/ CallSerializeParse
    \/ HostParse
    \/ HostMatch
    \/ ParserStep

SpecIPv6 == InitIPv6 /\ [][NextIPv6]_vars

\* IPv6Address::parse is sequential code: once called, it keeps executing
\* while it has a step to take.
FairSpecIPv6 == SpecIPv6 /\ WF_vars(ParserStep)

-----------------------------------------------------------------------------
(* Properties of the IPv6 codec and the host resolver *)

\* C1: for every address a, IPv6Address::parse(a.serialize()) returns an
\* address whose 8 groups are those of a.
C1_RoundTrip ==
    (pc = "done" /\ arg.fn = "IPv6Address::serialize")
        => ret = Some(arg.address)

\* The inputs with an embedded IPv4 tail and the groups they denote.
V4Expected ==
    { [in |-> V4Mapped, groups |-> << 0, 0, 0, 0, 0, 65535, 49152, 513 >>] }
    \cup { [in |-> V4Compat(a, b, c, d),
            groups |-> << 0, 0, 0, 0, 0, 0, a * 256 + b, c * 256 + d >>] :
              a, b, c, d \in V4Octets }

\* C4: an input with at most 6 groups filled and a tail of exactly 4 decimal
\* octets parses to the address whose last two groups pack the octets two per
\* group; "::ffff:192.0.2.1" gives [0,0,0,0,0,0xffff,0xc000,0x0201].
C4_EmbeddedIPv4 ==
    (pc = "done" /\ arg.fn = "IPv6Address::parse")
        => \A e \in V4Expected : arg.input = e.in => ret = Some(e.groups)

\* C5: Host::parse of a non-empty input that starts with '[' never aborts and
\* returns Ok(IPv6(addr)) or the error "Invalid IPv6 address", the latter
\* whenever the last byte is not ']'.
C5_BracketedHostReturns ==
    (arg.fn = "Host::parse" /\ arg.input # <<>> /\ arg.input[1] = Ord("["))
        => /\ pc # "abort"
           /\ pc = "done" =>
                \/ ret = << "Err", "Invalid IPv6 address" >>
                \/ /\ ret[1] = "Ok"
                   /\ ret[2][1] = "IPv6"
                   /\ arg.input[Len(arg.input)] = Ord("]")

\* The position of the first "::" of a string, 0 when there is none.
DoubleColon(str) ==
    IF \E k \in 1..(Len(str) - 1) : str[k] = Ord(":") /\ str[k + 1] = Ord(":")
    THEN CHOOSE k \in 1..(Len(str) - 1) :
            /\ str[k] = Ord(":") /\ str[k + 1] = Ord(":")
            /\ \A j \in 1..(k - 1) : ~(str[j] = Ord(":") /\ str[j + 1] = Ord(":"))
    ELSE 0

RECURSIVE HexValue(_)
\* The number written by a string of hex digits.
HexValue(str) ==
    IF str = <<>> THEN 0
    ELSE HexValue(SubSeq(str, 1, Len(str) - 1)) * 16
         + from_hex(str[Len(str)])[1]

\* The values of the ':'-separated groups of a string.
Groups(str) ==
    IF str = <<>> THEN <<>>
    ELSE LET parts == split(str, { Ord(":") })
         IN  [k \in 1..Len(parts) |-> HexValue(parts[k])]

\* The groups before the "::" of a string, zeros, then the groups after it.
Expanded(str) ==
    LET at == DoubleColon(str)
        before == Groups(SubSeq(str, 1, at - 1))
        after == Groups(SubSeq(str, at + 2, Len(str)))
    IN  before \o [k \in 1..(8 - Len(before) - Len(after)) |-> 0] \o after

\* C9: when parsing succeeds on an input containing "::", the groups read
\* before it keep their slots, the k groups read after it occupy the last k
\* slots in order, and every slot in between is zero.
C9_CompressionExpansion ==
    ( /\ pc = "done"
      /\ arg.fn = "IPv6Address::parse"
      /\ ret # None
      /\ DoubleColon(arg.input) # 0
      /\ \A k \in 1..Len(arg.input) : arg.input[k] # Ord(".") )
        => ret = Some(Expanded(arg.input))

\* C10: IPv6Address::parse stops on every input: a call that has started
\* eventually returns (or fails).
C10_ParseTerminates ==
    (pc = "parse") ~> (pc \in { "done", "host_match", "abort" })

-----------------------------------------------------------------------------
(* The form-urlencoded codec as a system *)

\* Longest generated input of parse_form_urlencoded.
MaxFormLen == 5
\* Most pairs in a generated input of serialize_form_urlencoded.
MaxPairs == 2

FormAlphabet == { Ord("a"), Ord("&"), Ord("="), Ord("+") }

FormInputs ==
    Strings(FormAlphabet, MaxFormLen)
    \cup { B(<< "v", "a", "l", "u", "e" >>),
           B(<< "a", "&", "v", "a", "l", "u", "e" >>),
           B(<< "&", "v", "a", "l", "u", "e" >>),
           B(<< "a", "=", "1", "&", "b", "=", "2", "+", "c" >>),
           B(<< "%", "4", "1", "=", "%", "z", "z", "&", "%", "4" >>),
           B(<< "x", "=", "%", "E", "9" >>),
           B(<< "x", "=", "%", "C", "3", "%", "A", "9" >>) }

CharsetInputs ==
    { B(<< "x", "=", "%", "E", "9", "&", "_", "c", "h", "a", "r", "s", "e",
           "t", "_", "=", "l", "1" >>),
      B(<< "_", "c", "h", "a", "r", "s", "e", "t", "_", "=", "u", "t", "f",
           "-", "8" >>),
      B(<< "_", "c", "h", "a", "r", "s", "e", "t", "_", "=", "x" >>) }

\* Names and values given to serialize_form_urlencoded (code points).
FormStrings ==
    { <<>>, B(<< "a" >>), B(<< "2", " ", "c" >>), B(<< "=", "&", "+" >>),
      << 233, Ord("*"), Ord("~") >> }

FormPairs == FormStrings \X FormStrings

ExamplePairs ==
    << << B(<< "a" >>), B(<< "1" >>) >>,
       << B(<< "b" >>), B(<< "2", " ", "c" >>) >> >>

FormCalls ==
    [fn : {"parse_form_urlencoded"}, input : FormInputs, pairs : {<<>>},
     use_charset : {FALSE}, isindex : BOOLEAN]
    \cup [fn : {"parse_form_urlencoded"}, input : CharsetInputs,
          pairs : {<<>>}, use_charset : BOOLEAN, isindex : {FALSE}]
    \cup [fn : {"serialize_form_urlencoded", "parse(serialize)"},
          input : {<<>>},
          pairs : UNION { [1..k -> FormPairs] : k \in 0..MaxPairs }
                  \cup { ExamplePairs },
          use_charset : {FALSE}, isindex : {FALSE}]

InitForm ==
    /\ arg \in FormCalls
    /\ pc = IF arg.fn = "parse_form_urlencoded"
            THEN "form_parse" ELSE "form_serialize"
    /\ ret = None
    /\ InitIPv6Locals
    /\ InitFormLocals

NextForm ==
    \/ FormParseBegin
    \/ FormParseSegment
    \/ FormParseDecode
    \/ FormSerializeBegin
    \/ FormSerializePair
    \/ FormSerializeReturn

SpecForm == InitForm /\ [][NextForm]_vars

-----------------------------------------------------------------------------
(* Properties of the form-urlencoded codec *)

\* C2: parse_form_urlencoded(serialize_form_urlencoded(pairs)) returns the
\* pairs in the same order.
C2_FormRoundTrip ==
    (pc = "done" /\ arg.fn = "parse(serialize)") => ret = arg.pairs

\* The uppercase hexadecimal digits.
HexUpper == B(<< "0", "1", "2", "3", "4", "5", "6", "7", "8", "9",
                 "A", "B", "C", "D", "E", "F" >>)

\* One ASCII byte as the claims write it: '+' for space, itself when in
\* [A-Za-z0-9*-._], %XX otherwise.
FormByte(b) ==
    IF b = Ord(" ") THEN << Ord("+") >>
    ELSE IF b \in { Ord("*"), Ord("-"), Ord("."), Ord("_") }
              \cup (Ord("0")..Ord("9")) \cup (Ord("A")..Ord("Z"))
              \cup (Ord("a")..Ord("z"))
         THEN << b >>
         ELSE << Ord("%"), HexUpper[(b \div 16) + 1], HexUpper[(b % 16) + 1] >>

FormText(str) == Concat([k \in 1..Len(utf8_encode(str)) |->
                            FormByte(utf8_encode(str)[k])])

RECURSIVE FormJoined(_)
\* name=value of every pair, joined by '&'.
FormJoined(ps) ==
    IF ps = <<>> THEN <<>>
    ELSE FormText(ps[1][1]) \o << Ord("=") >> \o FormText(ps[1][2])
         \o (IF Len(ps) > 1 THEN << Ord("&") >> ELSE <<>>)
         \o FormJoined(Tail(ps))

\* C3: serialize_form_urlencoded emits every pair in order as name=value,
\* pairs separated by one '&', no leading '&'; the example pairs give
\* "a=1&b=2+c".
C3_FormSerialize ==
    (pc = "done" /\ arg.fn = "serialize_form_urlencoded")
        => /\ ret = FormJoined(arg.pairs)
           /\ arg.pairs = ExamplePairs =>
                ret = B(<< "a", "=", "1", "&", "b", "=", "2", "+", "c" >>)

\* The positions of the non-empty segments of a split, in order.
NonEmpty(segs) ==
    SelectSeq([k \in 1..Len(segs) |-> k], LAMBDA k : segs[k] # <<>>)

\* The text of a raw name or value: '+' is a space, %XX is a byte, and the
\* bytes are UTF-8.
FormDecoded(str) == utf8_decode(percent_decode(replace_plus(str)))

\* What C8 says of every call without _charset_ handling: one pair per
\* non-empty segment, in order; a segment without '=' gives ("", segment) when
\* isindex is set and it is the first segment of the input, and
\* (segment, "") otherwise.
IsindexFirstSegmentOnly ==
    LET segs == split(arg.input, { Ord("&") })
        at == NonEmpty(segs)
    IN  /\ Len(ret) = Len(at)
        /\ \A j \in 1..Len(at) :
             find_eq(segs[at[j]]) = 0 =>
               ret[j] = IF arg.isindex /\ at[j] = 1
                        THEN << <<>>, FormDecoded(segs[at[j]]) >>
                        ELSE << FormDecoded(segs[at[j]]), <<>> >>

IsindexCall(in) ==
    /\ pc = "done"
    /\ arg.fn = "parse_form_urlencoded"
    /\ arg.isindex
    /\ ~arg.use_charset
    /\ arg.input = in

\* C8 as stated: isindex affects only the first segment, so that
\* parse("value", None, false, true) = [("", "value")] and
\* parse("a&value", None, false, true) = [("a", ""), ("value", "")].
C8_IsindexAsStated ==
    /\ (pc = "done" /\ arg.fn = "parse_form_urlencoded" /\ ~arg.use_charset)
          => IsindexFirstSegmentOnly
    /\ IsindexCall(B(<< "v", "a", "l", "u", "e" >>))
          => ret = << << <<>>, B(<< "v", "a", "l", "u", "e" >>) >> >>
    /\ IsindexCall(B(<< "a", "&", "v", "a", "l", "u", "e" >>))
          => ret = << << B(<< "a" >>), <<>> >>,
                      << B(<< "v", "a", "l", "u", "e" >>), <<>> >> >>

\* C8 as amended: isindex affects only the first segment, so that
\* parse("value", None, false, true) = [("", "value")] and
\* parse("a&value", None, false, true) = [("", "a"), ("value", "")]: the
\* first segment "a" has no '=' and becomes the value of an empty name.
C8_IsindexFirstSegment ==
    /\ (pc = "done" /\ arg.fn = "parse_form_urlencoded" /\ ~arg.use_charset)
          => IsindexFirstSegmentOnly
    /\ IsindexCall(B(<< "v", "a", "l", "u", "e" >>))
          => ret = << << <<>>, B(<< "v", "a", "l", "u", "e" >>) >> >>
    /\ IsindexCall(B(<< "a", "&", "v", "a", "l", "u", "e" >>))
          => ret = << << <<>>, B(<< "a" >>) >>,
                      << B(<< "v", "a", "l", "u", "e" >>), <<>> >> >>

\* A call with isindex set whose first segment has no '=' and which has a
\* later segment without '=' has returned.
C8_Witness ==
    /\ IsindexCall(B(<< "a", "&", "v", "a", "l", "u", "e" >>))
    /\ Len(ret) = 2
    /\ ret[1][1] = <<>>
    /\ ret[2][2] = <<>>

-----------------------------------------------------------------------------
(* The percent-encoding engine as a system *)

EncodeInputs ==
    { << b >> : b \in 0..255 }
    \cup { B(<< "a", " ", "b" >>), B(<< "%", "4", "1" >>),
           B(<< "u", ":", "p", "@", "h", "/", "?" >>), << 195, 169 >> }

EncodeCalls ==
    [fn : {"utf8_percent_encode"}, input : EncodeInputs,
     encode_set : { EncodeSet[k] : k \in 1..Len(EncodeSet) }]

InitEncode ==
    /\ pc = "call"
    /\ arg \in EncodeCalls
    /\ ret = None
    /\ InitIPv6Locals
    /\ InitFormLocals

NextEncode == Encode \/ Decode

SpecEncode == InitEncode /\ [][NextEncode]_vars

\* The place of an encode set in the order Simple, Default, UserInfo,
\* Password, Username.
Rank(encode_set) == CHOOSE k \in 1..Len(EncodeSet) : EncodeSet[k] = encode_set

\* The %XX form of a byte, uppercase.
Escape(b) ==
    << Ord("%"), HexUpper[(b \div 16) + 1], HexUpper[(b % 16) + 1] >>

AlwaysSafe ==
    { Ord("*"), Ord("-"), Ord("."), Ord("_") }
    \cup (Ord("0")..Ord("9")) \cup (Ord("A")..Ord("Z")) \cup (Ord("a")..Ord("z"))

\* C7: a byte written as %XX under an encode set is written as %XX under
\* every later set of the order; every byte below 0x20 or above 0x7E is
\* escaped under all five sets and every byte of [A-Za-z0-9*-._] is copied
\* under all five.
C7_EncodeSetMonotonic ==
    (pc \in { "encoded", "done" } /\ Len(arg.input) = 1)
        => LET b == arg.input[1]
           IN  /\ output \in { << b >>, Escape(b) }
               /\ \A k \in 1..(Rank(arg.encode_set) - 1) :
                     utf8_percent_encode(arg.input, EncodeSet[k]) = Escape(b)
                        => output = Escape(b)
               /\ (b < 32 \/ b > 126) => output = Escape(b)
               /\ b \in AlwaysSafe => output = << b >>

\* '@' has been encoded under the Password set, a set after the first one
\* that escapes it.
C7_Witness ==
    /\ pc = "encoded"
    /\ arg.input = << Ord("@") >>
    /\ arg.encode_set = "PasswordEncodeSet"
    /\ output = Escape(Ord("@"))

-----------------------------------------------------------------------------
(* URL serialization as a system *)

\* Most segments in a generated path.
MaxPath == 2

UserInfos ==
    { None }
    \cup { Some([username |-> u, password |-> p]) :
             u \in { <<>>, B(<< "u" >>) },
             p \in { None, Some(<<>>), Some(B(<< "p", "w" >>)) } }

Hosts ==
    { << "Domain", << B(<< "e", "x", "a", "m", "p", "l", "e" >>),
                      B(<< "c", "o", "m" >>) >> >>,
      << "Domain", << >> >>,
      << "IPv6", << 8193, 3512, 0, 0, 0, 0, 0, 1 >> >> }

Paths == UNION { [1..k -> { <<>>, B(<< "a" >>), B(<< "b" >>) }] : k \in 0..MaxPath }

URLs ==
    [scheme : { B(<< "h", "t", "t", "p" >>) },
     scheme_data : { << "RelativeSchemeData", rel >> :
                       rel \in [userinfo : UserInfos, host : Hosts,
                                port : { <<>>, B(<< "8", "0" >>) },
                                path : Paths] },
     query : { None, Some(B(<< "q", "=", "1" >>)) },
     fragment : { None, Some(B(<< "f" >>)) }]
    \cup
    [scheme : { B(<< "m", "a", "i", "l", "t", "o" >>) },
     scheme_data : { << "OtherSchemeData", B(<< "a", "@", "b" >>) >> },
     query : { None, Some(B(<< "q", "=", "1" >>)) },
     fragment : { None, Some(B(<< "f" >>)) }]

URLCalls == [fn : { "URL::serialize_no_fragment", "URL::serialize" }, url : URLs]

InitURL ==
    /\ pc = "call"
    /\ arg \in URLCalls
    /\ ret = None
    /\ InitIPv6Locals
    /\ InitFormLocals

NextURL == SerializeNoFragment \/ Serialize

SpecURL == InitURL /\ [][NextURL]_vars

ExampleURL ==
    [scheme |-> B(<< "h", "t", "t", "p" >>),
     scheme_data |-> << "RelativeSchemeData",
                        [userinfo |-> None,
                         host |-> << "Domain",
                                     << B(<< "e", "x", "a", "m", "p", "l", "e" >>),
                                        B(<< "c", "o", "m" >>) >> >>,
                         port |-> <<>>,
                         path |-> << B(<< "a" >>), B(<< "b" >>) >>] >>,
     query |-> Some(B(<< "q", "=", "1" >>)),
     fragment |-> None]

ExampleText ==
    B(<< "h", "t", "t", "p", ":", "/", "/", "e", "x", "a", "m", "p", "l", "e",
         ".", "c", "o", "m", "/", "a", "/", "b", "?", "q", "=", "1" >>)

RECURSIVE PathText(_)
\* '/' + segment for each segment.
PathText(path) ==
    IF path = <<>> THEN <<>>
    ELSE << Ord("/") >> \o Head(path) \o PathText(Tail(path))

\* The serialization C6 describes, for the userinfo text given.
RelativeText(url, userinfoText) ==
    LET rel == url.scheme_data[2]
    IN  url.scheme \o B(<< ":", "/", "/" >>) \o userinfoText
        \o Host_serialize(rel.host)
        \o (IF rel.port # <<>> THEN << Ord(":") >> \o rel.port ELSE <<>>)
        \o (IF rel.path = <<>> THEN << Ord("/") >> ELSE PathText(rel.path))
        \o (IF url.query # None THEN << Ord("?") >> \o url.query[1] ELSE <<>>)

\* username, ':' + password if present, '@'.
UserinfoText(userinfo) ==
    userinfo[1].username
    \o (IF userinfo[1].password # None
        THEN << Ord(":") >> \o userinfo[1].password[1] ELSE <<>>)
    \o << Ord("@") >>

RelativeCall ==
    /\ pc = "done"
    /\ arg.fn = "URL::serialize_no_fragment"
    /\ arg.url.scheme_data[1] = "RelativeSchemeData"

\* C6 as stated: the userinfo is omitted when it is absent or when username
\* and password are both empty or absent.
C6_SerializeAsStated ==
    RelativeCall =>
      LET userinfo == arg.url.scheme_data[2].userinfo
          omitted == \/ userinfo = None
                     \/ /\ userinfo[1].username = <<>>
                        /\ userinfo[1].password \in { None, Some(<<>>) }
      IN  /\ ret = RelativeText(arg.url, IF omitted THEN <<>>
                                         ELSE UserinfoText(userinfo))
          /\ arg.url = ExampleURL => ret = ExampleText

\* C6 as amended: the userinfo is omitted when it is absent or when the
\* username is empty and the password is absent; a password that is present,
\* even empty, is written as ':' + password before the '@'.
C6_SerializeNoFragment ==
    RelativeCall =>
      LET userinfo == arg.url.scheme_data[2].userinfo
          omitted == \/ userinfo = None
                     \/ /\ userinfo[1].username = <<>>
                        /\ userinfo[1].password = None
      IN  /\ ret = RelativeText(arg.url, IF omitted THEN <<>>
                                         ELSE UserinfoText(userinfo))
          /\ arg.url = ExampleURL => ret = ExampleText

\* A URL with an empty username and an empty but present password, a port, a
\* path and a query has been serialized.
C6_Witness ==
    /\ RelativeCall
    /\ arg.url.scheme_data[2].userinfo =
          Some([username |-> <<>>, password |-> Some(<<>>)])
    /\ arg.url.scheme_data[2].port # <<>>
    /\ arg.url.scheme_data[2].path # <<>>
    /\ arg.url.query # None
    /\ SubSeq(ret, 1, 9) = B(<< "h", "t", "t", "p", ":", "/", "/", ":", "@" >>)

====
